---- MODULE Spec2Model ----
(***************************************************************************)
(* Augmentum runtime: the advice store and evaluator of one extension      *)
(* point (FnExtensionPoint, List, ExtensionData), the generated entries of *)
(* a rewritten function, the listener lifecycle, the advice id counter and *)
(* the type descriptor registry.                                           *)
(***************************************************************************)
EXTENDS Integers, Sequences, FiniteSets, TLC

\* ------------------------------------------------------------------------
\* Bounds of the model
\* ------------------------------------------------------------------------

\* Number of ListNode addresses the allocator can hand out.
MaxNodes == 3

\* Number of extension points created, and length of the listener list.
MaxPoints == 2
MaxListed == 2

\* get_unique_advice_id: how far below the wrap of AdviceId a run may start,
\* and how many calls a run makes.
StartBack == 10
MaxIdCalls == 10

\* Number of distinct type descriptor requests in a run.
MaxRequests == 3

\* Number of distinct requests in a run that asks only for unknown
\* descriptors, anonymous structs and function types.
MaxKeyed == 4

\* Number of functions in a module given to the pass.
MaxFunctions == 3

\* ------------------------------------------------------------------------
\* Advice store: state
\* ------------------------------------------------------------------------

VARIABLES
    fn,        \* *fn, the function pointer slot the public entry loads
    data,      \* the ExtensionData of the point: present flag and three list heads
    nodes,     \* the ListNode heap: address -> node (freed nodes keep their bytes)
    advice,    \* history: the advice that was installed and not yet removed, per chain
    crashed,   \* the process was aborted (failed assert, null dereference, fault)
    ub,        \* some operation has read, written or freed a freed ListNode
    fkind,     \* which instrumented function the point belongs to
    last       \* history: the last operation, and for a public call its arguments and outcome

advVars == <<fn, data, nodes, advice, crashed, ub, fkind, last>>

\* Registry of extension points and listeners
VARIABLES
    registry,      \* registry(): key -> extension point (NoPoint where the key is absent)
    point_key,     \* the extension points created so far, each with its key
    listeners,     \* listeners(): the vector of Listener*
    added,         \* Listener::added, per listener
    on_register,   \* history: on_extension_point_register calls per listener and point
    on_unregister, \* history: on_extension_point_unregister calls per listener and point
    due,           \* history: points registered when the listener attached, or since
    phase,         \* history: where the listener is in its attach/detach cycle
    slot,          \* *fn of each extension point created
    torn_down,     \* empty_registry has run
    teardown       \* history: what empty_registry did, in order

lisVars == <<registry, point_key, listeners, added, on_register, on_unregister, due, phase,
             slot, torn_down, teardown>>

\* get_unique_advice_id
VARIABLES
    next_id,       \* static AdviceId next_id, as two limbs
    first_id,      \* history: value of next_id at the start of the run
    returned       \* history: the values returned in this run, in order

idVars == <<next_id, first_id, returned>>

\* Type descriptors
VARIABLES
    descs,         \* the TypeDesc objects: identity -> fields
    tables,        \* unknowns, array_types, vector_types, anon_structs, named_structs, function_types
    results,       \* history: request -> the descriptors it has returned
    type_abort,    \* an assert of the type registry failed
    failed,        \* history: the request whose call ended the process
    called         \* history: the calls of set_struct_elem_types that have returned

typVars == <<descs, tables, results, type_abort, failed, called>>

\* The instrumentation pass
VARIABLES
    pass_pc,               \* where runOnModule is: "start", "loop" or "done"
    module_fns,            \* module.getFunctionList(): the functions, in order of creation
    should_instrument,     \* the ShouldInstrument callback of the pass
    DryRun,                \* the dry-run option
    funs_cpy,              \* run_instrumentation's copy of the function list (pointers)
    ctors,                 \* llvm.global_ctors, as far as the pass appended to it
    transformed_functions, \* run_instrumentation's counter
    input,                 \* history: the module as it was given to the pass
    considered             \* history: the functions the loop has handled, in order

passVars == <<pass_pc, module_fns, should_instrument, DryRun, funs_cpy, ctors,
              transformed_functions, input, considered>>

\* Evaluations in flight
VARIABLES
    frames     \* per thread: the activation of the extended entry and of eval it is in

evalVars == <<frames>>

extVars == <<passVars, evalVars>>

vars == <<advVars, lisVars, idVars, typVars, extVars>>

NULL == 0
Addr == 1..MaxNodes
Chains == {"before", "around", "after"}
AdviceIds == {0, 1, 2}
\* The advice bodies are the caller's: an observer, the add-one advice of the
\* tests, a doubling advice that makes the order of mutations visible, and
\* an advice that writes its own answer and does not call call_previous.
BeforeFns == {"observe"}
AroundFns == {"addOne", "double", "answer"}
AfterFns == {"observe"}
ChainFns(c) == IF c = "around" THEN AroundFns ELSE IF c = "before" THEN BeforeFns ELSE AfterFns

\* Advice bodies that write the cells they are given: a before advice that
\* increments the first argument, the around advice of the array test that
\* increments before it calls call_previous, an after advice that doubles
\* the return value.
SharedFns(c) ==
    IF c = "before" THEN {"observe", "incArg"}
    ELSE IF c = "around" THEN {"addOne", "incFactor"}
    ELSE {"observe", "double"}

\* And bodies that throw, that attach an after advice to their own point,
\* or that remove themselves and then call call_previous.
EvalFns(c) ==
    SharedFns(c) \cup (IF c = "before" THEN {"throw", "attachAfter"}
                       ELSE IF c = "around" THEN {"removeSelf"}
                       ELSE {"throw"})

\* Threads that call the public entry of the point
MaxThreads == 2
Threads == 1..MaxThreads

original == "F_original"
extended == "F_extended"
Replacements == {"F_replacement"}
FnValues == {original, extended} \cup Replacements
FnKinds == {"add", "voidTypeTest"}
CallArgs == {[a |-> 10, b |-> 20, cell |-> 10], [a |-> 100, b |-> 200, cell |-> 10]}

NoNode == [function |-> "none", id |-> 0, next |-> NULL, live |-> FALSE]
NoData == [present |-> FALSE, head |-> [c \in Chains |-> NULL]]
NewData == [present |-> TRUE, head |-> [c \in Chains |-> NULL]]
NoAdvice == [c \in Chains |-> <<>>]
NoCall == [trace |-> <<>>, ret |-> 0, cell |-> 0, touched |-> FALSE, abort |-> FALSE]
NoOp == [op |-> "none", no_id |-> FALSE, args |-> [a |-> 0, b |-> 0, cell |-> 0],
         via |-> "none", call |-> NoCall]

Range(s) == {s[i] : i \in 1..Len(s)}

\* ------------------------------------------------------------------------
\* FnExtensionPoint queries
\* ------------------------------------------------------------------------

is_original == fn = original
is_extended == fn = extended
is_replaced_ignores_extended == ~is_original
is_replaced == ~is_original /\ ~is_extended

\* ------------------------------------------------------------------------
\* List<Function>
\* ------------------------------------------------------------------------

\* The nodes met by following next from a head, freed ones included.
RECURSIVE Walk(_, _, _)
Walk(h, curr, fuel) ==
    IF curr = NULL \/ fuel = 0 THEN <<>>
    ELSE <<curr>> \o Walk(h, h[curr].next, fuel - 1)

ListNodes(h, head) == Walk(h, head, Cardinality(Addr))

\* operator new: an address that holds no node and that no list still refers to.
FreeAddrs(h) == {a \in Addr : h[a] = NoNode}
NewAddr(h) == CHOOSE a \in FreeAddrs(h) : \A b \in FreeAddrs(h) : a <= b

push_front(h, head, function, id) ==
    LET a == NewAddr(h)
    IN  [nodes |-> [h EXCEPT ![a] = [function |-> function, id |-> id, next |-> head, live |-> TRUE]],
         head |-> a, touched |-> FALSE]

list_empty(head) == head = NULL

\* List::erase(node): unlink and delete the node that is `node`, then stop.
RECURSIVE EraseLoop(_, _, _, _, _, _)
EraseLoop(h, head, prev, curr, node, touched) ==
    IF curr = NULL THEN [nodes |-> h, head |-> head, touched |-> touched]
    ELSE LET next == h[curr].next
             t1 == touched \/ ~h[curr].live
         IN  IF curr = node
             THEN [nodes |-> [(IF prev = NULL THEN h ELSE [h EXCEPT ![prev].next = next])
                                EXCEPT ![curr].live = FALSE],
                   head |-> IF prev = NULL THEN next ELSE head,
                   touched |-> t1 \/ (prev # NULL /\ ~h[prev].live)]
             ELSE EraseLoop(h, head, curr, next, node, t1)

erase(h, head, node) == EraseLoop(h, head, NULL, head, node, FALSE)

\* List::remove(id): unlink and delete every node whose id is `id`. After a
\* node is deleted the loop still makes it `prev`.
RECURSIVE RemoveLoop(_, _, _, _, _, _)
RemoveLoop(h, head, prev, curr, id, touched) ==
    IF curr = NULL THEN [nodes |-> h, head |-> head, touched |-> touched]
    ELSE LET next == h[curr].next
             t1 == touched \/ ~h[curr].live
         IN  IF h[curr].id = id
             THEN RemoveLoop([(IF prev = NULL THEN h ELSE [h EXCEPT ![prev].next = next])
                                 EXCEPT ![curr].live = FALSE],
                             IF prev = NULL THEN next ELSE head,
                             curr, next, id,
                             t1 \/ (prev # NULL /\ ~h[prev].live))
             ELSE RemoveLoop(h, head, curr, next, id, t1)

list_remove(h, head, id) == RemoveLoop(h, head, NULL, head, id, FALSE)

\* List::~List(): delete every node from the head on.
RECURSIVE DestroyLoop(_, _, _, _)
DestroyLoop(h, curr, touched, fuel) ==
    IF curr = NULL \/ fuel = 0 THEN [nodes |-> h, touched |-> touched]
    ELSE DestroyLoop([h EXCEPT ![curr].live = FALSE], h[curr].next,
                     touched \/ ~h[curr].live, fuel - 1)

list_destroy(h, head) == DestroyLoop(h, head, FALSE, Cardinality(Addr))

\* ExtensionData::empty
data_empty(d) ==
    list_empty(d.head["before"]) /\ list_empty(d.head["around"]) /\ list_empty(d.head["after"])

\* A freed node that no list refers to any more cannot be observed: its
\* address goes back to the allocator.
Reachable(h, d) ==
    UNION {Range(ListNodes(h, d.head[c])) : c \in Chains}

Collect(h, d) ==
    [a \in Addr |-> IF ~h[a].live /\ (~d.present \/ a \notin Reachable(h, d)) THEN NoNode ELSE h[a]]

\* Which address a node has is the allocator's choice and nothing in the
\* program depends on it, so states are kept up to renaming of addresses:
\* nodes are numbered in the order in which the three lists reach them.
ListOrder(h, d) ==
    ListNodes(h, d.head["before"]) \o ListNodes(h, d.head["around"]) \o ListNodes(h, d.head["after"])

Renamable(h, d) ==
    LET w == ListOrder(h, d)
    IN  /\ Cardinality(Range(w)) = Len(w)
        /\ Range(w) = {a \in Addr : h[a] # NoNode}

Renaming(h, d) ==
    LET w == ListOrder(h, d)
    IN  [a \in Addr \cup {NULL} |->
            IF a \in Range(w) THEN CHOOSE i \in 1..Len(w) : w[i] = a ELSE NULL]

\* ------------------------------------------------------------------------
\* The instrumented function and its generated entries
\* ------------------------------------------------------------------------

\* The preserved clone F_original: add returns a + b, voidTypeTest increments *ip.
original_fn(fk, a, b, cell) ==
    IF fk = "add" THEN [ret |-> a + b, cell |-> cell]
    ELSE [ret |-> 0, cell |-> cell + 1]

\* A user function installed by replace(f).
replacement_fn(fk, a, b, cell) == [ret |-> 0 - 1, cell |-> cell]

\* F_reflect: load the arguments from the argument cells, call the clone,
\* store the result through ret (call_original goes straight here).
call_original(fk, st) ==
    LET r == original_fn(fk, st.a, st.b, st.cell)
    IN  [st EXCEPT !.trace = Append(@, [ev |-> "original", node |-> NULL]),
                   !.ret = r.ret, !.cell = r.cell]

\* What an around advice does to the return cell (add) or to *arg0
\* (voidTypeTest) once call_previous has returned.
mutation(function, v) ==
    IF function = "addOne" THEN v + 1
    ELSE IF function = "double" THEN 2 * v
    ELSE IF function = "answer" THEN 42
    ELSE v

\* Whether the body of an around advice calls call_previous.
calls_previous(function) == function # "answer"

around_body_after_previous(function, fk, st) ==
    IF fk = "add" THEN [st EXCEPT !.ret = mutation(function, @)]
    ELSE [st EXCEPT !.cell = mutation(function, @)]

RECURSIVE call_current(_, _, _, _)

\* call_previous(handle): call_current(node->next).
call_previous(h, handle, fk, st) == call_current(h, h[handle].next, fk, st)

\* call_current(handle): run the advice of the node, or the reflect thunk for
\* nullptr. The advice calls call_previous(handle), if it does, and then
\* mutates.
call_current(h, handle, fk, st) ==
    IF handle # NULL
    THEN LET node == h[handle]
             entered == [st EXCEPT !.trace = Append(@, [ev |-> "around", node |-> handle]),
                                   !.touched = @ \/ ~node.live]
             inner == IF calls_previous(node.function)
                      THEN call_previous(h, handle, fk, entered)
                      ELSE entered
             done == around_body_after_previous(node.function, fk, inner)
         IN  [done EXCEPT !.trace = Append(@, [ev |-> "around_ret", node |-> handle])]
    ELSE call_original(fk, st)

\* One pass over a before or after list, calling each node's advice.
RECURSIVE run_list(_, _, _, _, _)
run_list(h, curr, ev, st, fuel) ==
    IF curr = NULL \/ fuel = 0 THEN st
    ELSE run_list(h, h[curr].next, ev,
                  [st EXCEPT !.trace = Append(@, [ev |-> ev, node |-> curr]),
                             !.touched = @ \/ ~h[curr].live],
                  fuel - 1)

\* FnExtensionPoint::eval
eval(h, d, fk, st) ==
    LET s1 == run_list(h, d.head["before"], "before", st, Cardinality(Addr))
        s2 == call_current(h, d.head["around"], fk, s1)
    IN  run_list(h, d.head["after"], "after", s2, Cardinality(Addr))

\* F_extended: a return cell and one cell per argument, then the evaluator;
\* the caller gets the content of the return cell.
extended_entry(h, d, fk, args) ==
    eval(h, d, fk, [trace |-> <<>>, ret |-> 0, a |-> args.a, b |-> args.b,
                    cell |-> args.cell, touched |-> FALSE])

CallResult(trace, r, touched, abort) ==
    [trace |-> trace, ret |-> r.ret, cell |-> r.cell, touched |-> touched, abort |-> abort]

public_entry_always_extended(f, h, d, fk, args) ==
    LET s == extended_entry(h, d, fk, args)
    IN  CallResult(s.trace, s, s.touched, ~d.present)

\* The rewritten F: load the slot and call through it with the caller's
\* arguments. eval asserts that the point has its ExtensionData.
public_entry(f, h, d, fk, args) ==
    IF f = original
    THEN CallResult(<<[ev |-> "original", node |-> NULL]>>,
                    original_fn(fk, args.a, args.b, args.cell), FALSE, FALSE)
    ELSE IF f = extended
    THEN LET s == extended_entry(h, d, fk, args)
         IN  CallResult(s.trace, s, s.touched, ~d.present)
    ELSE CallResult(<<[ev |-> "replacement", node |-> NULL]>>,
                    replacement_fn(fk, args.a, args.b, args.cell), FALSE, FALSE)

\* ------------------------------------------------------------------------
\* FnExtensionPoint: the operations, as functions of the point's state
\* ------------------------------------------------------------------------

Point(f, d, h) == [fn |-> f, data |-> d, nodes |-> h, touched |-> FALSE, abort |-> FALSE]

reset_keeps_slot(p) ==
    LET r1 == list_destroy(p.nodes, p.data.head["after"])
        r2 == list_destroy(r1.nodes, p.data.head["around"])
        r3 == list_destroy(r2.nodes, p.data.head["before"])
    IN  [p EXCEPT !.data = NoData, !.nodes = r3.nodes,
                  !.touched = @ \/ r1.touched \/ r2.touched \/ r3.touched]

\* FnExtensionPoint::reset: delete the ExtensionData (its lists are destroyed
\* last member first), then data = nullptr and *fn = original.
reset(p) ==
    LET r1 == list_destroy(p.nodes, p.data.head["after"])
        r2 == list_destroy(r1.nodes, p.data.head["around"])
        r3 == list_destroy(r2.nodes, p.data.head["before"])
    IN  [p EXCEPT !.fn = original, !.data = NoData, !.nodes = r3.nodes,
                  !.touched = @ \/ r1.touched \/ r2.touched \/ r3.touched]

replace_keeps_data(p, f) == [p EXCEPT !.fn = f]

\* FnExtensionPoint::replace
replace(p, f) == [reset(p) EXCEPT !.fn = f]

prepare_for_extend_keeps_slot(p) ==
    IF ~p.data.present THEN [p EXCEPT !.data = NewData] ELSE p

\* FnExtensionPoint::prepare_for_extend
prepare_for_extend(p) ==
    IF ~p.data.present THEN [p EXCEPT !.data = NewData, !.fn = extended]
    ELSE [p EXCEPT !.abort = @ \/ p.fn # extended]

\* extend_before / extend_around / extend_after
extend(p, c, function, id) ==
    LET q == prepare_for_extend(p)
        r == push_front(q.nodes, q.data.head[c], function, id)
    IN  [q EXCEPT !.nodes = r.nodes, !.data.head[c] = r.head]

\* The tail shared by every remove: if (extension_data->empty()) reset().
reset_if_empty(p) == IF data_empty(p.data) THEN reset(p) ELSE p

\* remove_before / remove_around / remove_after (handle)
remove_handle(p, c, handle) ==
    IF p.fn = extended
    THEN IF ~p.data.present THEN [p EXCEPT !.abort = TRUE]
         ELSE LET r == erase(p.nodes, p.data.head[c], handle)
              IN  reset_if_empty([p EXCEPT !.nodes = r.nodes, !.data.head[c] = r.head,
                                           !.touched = @ \/ r.touched])
    ELSE p

remove_id_any(p, c, id) ==
    IF p.fn = extended /\ p.data.present
    THEN LET r == list_remove(p.nodes, p.data.head[c], id)
         IN  reset_if_empty([p EXCEPT !.nodes = r.nodes, !.data.head[c] = r.head,
                                      !.touched = @ \/ r.touched])
    ELSE p


\* remove_before / remove_around / remove_after (id)
remove_id(p, c, id) ==
    IF id # 0 /\ p.fn = extended
    THEN IF ~p.data.present THEN [p EXCEPT !.abort = TRUE]
         ELSE LET r == list_remove(p.nodes, p.data.head[c], id)
              IN  reset_if_empty([p EXCEPT !.nodes = r.nodes, !.data.head[c] = r.head,
                                           !.touched = @ \/ r.touched])
    ELSE p

\* remove(id): befores, arounds, afters in turn.
remove(p, id) ==
    IF id # 0 /\ p.fn = extended
    THEN IF ~p.data.present \/ data_empty(p.data) THEN [p EXCEPT !.abort = TRUE]
         ELSE LET r1 == list_remove(p.nodes, p.data.head["before"], id)
                  r2 == list_remove(r1.nodes, p.data.head["around"], id)
                  r3 == list_remove(r2.nodes, p.data.head["after"], id)
              IN  reset_if_empty([p EXCEPT !.nodes = r3.nodes,
                                           !.data.head = [c \in Chains |->
                                               IF c = "before" THEN r1.head
                                               ELSE IF c = "around" THEN r2.head ELSE r3.head],
                                           !.touched = @ \/ r1.touched \/ r2.touched \/ r3.touched])
    ELSE p

\* ------------------------------------------------------------------------
\* Advice store: the state machine
\* ------------------------------------------------------------------------

Here == Point(fn, data, nodes)

WithoutNode(s, a) == LET Keep(x) == x.node # a IN SelectSeq(s, Keep)
WithoutId(s, id) == LET Keep(x) == x.id # id IN SelectSeq(s, Keep)

\* An operation ends in one of three ways: it returns; it returns after
\* having touched freed memory (the bytes were still there); or the process
\* dies (failed assert, null dereference, or a fault on freed memory).
Renamed(h, d, g, w, ren) ==
    [nodes |-> [i \in Addr |-> IF i <= Len(w) THEN [h[w[i]] EXCEPT !.next = ren[@]] ELSE NoNode],
     data |-> [d EXCEPT !.head = [c \in Chains |-> ren[d.head[c]]]],
     advice |-> [c \in Chains |-> [i \in 1..Len(g[c]) |-> [g[c][i] EXCEPT !.node = ren[@]]]]]

Settle(p, g) ==
    LET h == CHOOSE x \in {Collect(p.nodes, p.data)} : TRUE
    IN  IF Renamable(h, p.data)
        THEN Renamed(h, p.data, g,
                     CHOOSE w \in {ListOrder(h, p.data)} : TRUE,
                     CHOOSE ren \in {Renaming(h, p.data)} : TRUE)
        ELSE [nodes |-> h, data |-> p.data, advice |-> g]

Returns(p, g, lab) ==
    \E s \in {Settle(p, g)} :
        /\ fn' = p.fn /\ data' = s.data /\ nodes' = s.nodes /\ advice' = s.advice
        /\ last' = lab

Finish(result, g, lab) ==
    \E p \in {result} :
        /\ \/ /\ ~p.abort /\ ~p.touched
              /\ Returns(p, g, lab)
              /\ UNCHANGED <<crashed, ub, fkind>>
           \/ /\ ~p.abort /\ p.touched
              /\ Returns(p, g, lab)
              /\ ub' = TRUE
              /\ UNCHANGED <<crashed, fkind>>
           \/ /\ p.abort \/ p.touched
              /\ crashed' = TRUE /\ ub' = (ub \/ p.touched) /\ last' = lab
              /\ UNCHANGED <<fn, data, nodes, advice, fkind>>
        /\ UNCHANGED <<lisVars, idVars, typVars, extVars>>

\* What the last operation was: its name, the slot value it found, and
\* whether it was a removal with the id 0.
Did(op, no_id) == [NoOp EXCEPT !.op = op, !.no_id = no_id, !.via = fn]

Extend(c, function, id) ==
    /\ ~crashed /\ ~ub /\ FreeAddrs(nodes) # {}
    /\ \E p \in {extend(Here, c, function, id)} :
           Finish(p,
                  [advice EXCEPT ![c] = <<[node |-> p.data.head[c], id |-> id,
                                           function |-> function]>> \o @],
                  Did("extend", FALSE))

RemoveHandle(c, handle) ==
    /\ ~crashed /\ ~ub
    /\ Finish(remove_handle(Here, c, handle), [advice EXCEPT ![c] = WithoutNode(@, handle)],
              Did("remove_handle", FALSE))

RemoveId(c, id) ==
    /\ ~crashed /\ ~ub
    /\ Finish(remove_id(Here, c, id),
              [advice EXCEPT ![c] = IF id = 0 THEN @ ELSE WithoutId(@, id)],
              Did("remove_id", id = 0))

Remove(id) ==
    /\ ~crashed /\ ~ub
    /\ Finish(remove(Here, id),
              [c \in Chains |-> IF id = 0 THEN advice[c] ELSE WithoutId(advice[c], id)],
              Did("remove", id = 0))

Replace(f) ==
    /\ ~crashed /\ ~ub
    /\ Finish(replace(Here, f), NoAdvice, Did("replace", FALSE))

Reset ==
    /\ ~crashed /\ ~ub
    /\ Finish(reset(Here), NoAdvice, Did("reset", FALSE))

Call(args) ==
    /\ ~crashed
    /\ \E r \in {public_entry(fn, nodes, data, fkind, args)} :
           Finish([Here EXCEPT !.touched = r.touched, !.abort = r.abort], advice,
                  [NoOp EXCEPT !.op = "call", !.args = args, !.via = fn, !.call = r])

\* Handles in use are the ones extend returned for nodes that are still installed.
Handles(c) == {x.node : x \in Range(advice[c])}

AdvNext ==
    \/ \E c \in Chains, id \in AdviceIds : \E function \in ChainFns(c) : Extend(c, function, id)
    \/ \E c \in Chains : \E handle \in Handles(c) : RemoveHandle(c, handle)
    \/ \E c \in Chains, id \in AdviceIds : RemoveId(c, id)
    \/ \E id \in AdviceIds : Remove(id)
    \/ \E f \in FnValues : Replace(f)
    \/ Reset
    \/ \E args \in CallArgs : Call(args)

\* ------------------------------------------------------------------------
\* One evaluation, step by step
\* ------------------------------------------------------------------------

\* The activation of F_extended and eval: where it is, the iterator or the
\* around handle it holds, the around advice waiting for call_previous to
\* return, the return cell and the argument cells on its stack, whether the
\* ExtensionData its extension_data points to has been deleted; and as
\* history the caller's arguments, the events so far and the point as it
\* was at entry.
IdleFrame ==
    [pc |-> "idle", it |-> NULL, stack |-> <<>>, ret |-> 0, a |-> 0, b |-> 0, cell |-> 0,
     stale |-> FALSE, args |-> NoOp.args, trace |-> <<>>,
     entry |-> [fn |-> original, data |-> NoData, nodes |-> [x \in Addr |-> NoNode],
                advice |-> NoAdvice]]

Quiet == \A t \in Threads : frames[t].pc = "idle"

begin_empty(d, c) == NULL

\* List::begin
begin(d, c) == d.head[c]

advice_body_on_copies(c, function, f) ==
    IF c = "after" THEN [f EXCEPT !.ret = mutation(function, @)] ELSE f

\* What an advice body does to the cells it is given through ret_value and
\* arg_values (an around advice: before it calls call_previous).
advice_body(c, function, f) ==
    IF c = "after" THEN [f EXCEPT !.ret = mutation(function, @)]
    ELSE IF function \in {"incArg", "incFactor"} THEN [f EXCEPT !.a = @ + 1]
    ELSE f

\* What an advice body does to the point it is given: attachAfter calls
\* pt.extend_after, removeSelf calls pt.remove_around(handle).
reentered(function, p, g, handle) ==
    IF function = "attachAfter"
    THEN LET q == extend(p, "after", "observe", 0)
         IN  [point |-> q,
              advice |-> [g EXCEPT !["after"] = <<[node |-> q.data.head["after"], id |-> 0,
                                                   function |-> "observe"]>> \o @]]
    ELSE IF function = "removeSelf"
    THEN [point |-> remove_handle(p, "around", handle),
          advice |-> [g EXCEPT !["around"] = WithoutNode(@, handle)]]
    ELSE [point |-> p, advice |-> g]

raise_caught(f) == f

\* An exception leaves eval and F_extended: neither has a handler.
raise(f) == [f EXCEPT !.pc = "thrown"]

\* The next step of eval in the activation f on the point p: one advice body
\* and the iterator increment after it, one call_current, one return into an
\* around advice, or the move to the next list.
eval_step(f, p, g, fk) ==
    LET h == p.nodes
        Out(f2, r, touched) ==
            [frame |-> f2, point |-> r.point, advice |-> r.advice,
             touched |-> touched \/ r.point.touched, abort |-> r.point.abort]
        Same == [point |-> p, advice |-> g]
        Ran(c, function) ==
            LET f1 == [f EXCEPT !.trace = Append(@, [ev |-> c, node |-> f.it])]
                r == reentered(function, p, g, f.it)
            IN  [frame |-> [advice_body(c, function, f1)
                               EXCEPT !.stale = @ \/ (p.data.present /\ ~r.point.data.present)],
                 r |-> r,
                 next |-> r.point.nodes[f.it].next,
                 freed |-> ~r.point.nodes[f.it].live]
    IN  CASE f.pc \in {"before", "after"} ->
               IF f.it = NULL
               THEN IF f.pc = "after" THEN Out([f EXCEPT !.pc = "done"], Same, FALSE)
                    ELSE Out([f EXCEPT !.pc = "around", !.it = begin(p.data, "around")],
                             Same, f.stale)
               ELSE IF ~h[f.it].live THEN Out(f, Same, TRUE)
               ELSE IF h[f.it].function = "throw"
               THEN Out(raise([f EXCEPT !.trace = Append(@, [ev |-> f.pc, node |-> f.it])]),
                        Same, FALSE)
               ELSE LET x == Ran(f.pc, h[f.it].function)
                    IN  Out([x.frame EXCEPT !.it = x.next], x.r, x.freed)
          [] f.pc = "around" ->
               IF f.it = NULL
               THEN Out([call_original(fk, f) EXCEPT !.pc = "unwind"], Same, FALSE)
               ELSE IF ~h[f.it].live THEN Out(f, Same, TRUE)
               ELSE LET x == Ran("around", h[f.it].function)
                        entered == [x.frame EXCEPT !.stack =
                                       Append(@, [node |-> f.it, function |-> h[f.it].function])]
                    IN  IF calls_previous(h[f.it].function)
                        THEN Out([entered EXCEPT !.it = x.next], x.r, x.freed)
                        ELSE Out([entered EXCEPT !.pc = "unwind"], x.r, FALSE)
          [] f.pc = "unwind" ->
               IF f.stack = <<>>
               THEN Out([f EXCEPT !.pc = "after", !.it = begin(p.data, "after")], Same, f.stale)
               ELSE LET top == f.stack[Len(f.stack)]
                        f1 == around_body_after_previous(top.function, fk, f)
                    IN  Out([f1 EXCEPT !.stack = SubSeq(@, 1, Len(@) - 1),
                                       !.trace = Append(@, [ev |-> "around_ret", node |-> top.node])],
                            Same, FALSE)

\* A call through the public entry by thread t: the slot is loaded; the
\* original or a replacement runs at once, the extended entry makes its
\* cells and enters eval, which asserts that the point has its data.
Enter(t, args) ==
    /\ ~crashed /\ ~ub
    /\ frames[t].pc = "idle"
    /\ LET at == [fn |-> fn, data |-> data, nodes |-> nodes, advice |-> advice]
           r == public_entry(fn, nodes, data, fkind, args)
       IN  IF fn # extended
           THEN /\ frames' = [frames EXCEPT ![t] =
                        [IdleFrame EXCEPT !.pc = "done", !.ret = r.ret, !.cell = r.cell,
                                          !.trace = r.trace, !.args = args, !.entry = at]]
                /\ UNCHANGED crashed
           ELSE IF ~data.present
           THEN crashed' = TRUE /\ UNCHANGED frames
           ELSE /\ frames' = [frames EXCEPT ![t] =
                        [IdleFrame EXCEPT !.pc = "before", !.it = begin(data, "before"),
                                          !.a = args.a, !.b = args.b, !.cell = args.cell,
                                          !.args = args, !.entry = at]]
                /\ UNCHANGED crashed
    /\ UNCHANGED <<fn, data, nodes, advice, ub, fkind, last>>
    /\ UNCHANGED <<lisVars, idVars, typVars, passVars>>

\* Thread t goes one step on in its evaluation. A step that reads a deleted
\* ListNode or ExtensionData is undefined: the process may die there, and
\* what the evaluation does after it is not followed.
Step(t) ==
    /\ ~crashed /\ ~ub
    /\ frames[t].pc \in {"before", "around", "unwind", "after"}
    /\ (frames[t].pc = "before" /\ frames[t].it # NULL
          /\ nodes[frames[t].it].function = "attachAfter") => FreeAddrs(nodes) # {}
    /\ \E x \in {eval_step(frames[t], Here, advice, fkind)} :
          IF x.touched \/ x.abort
          THEN /\ ub' = x.touched
               /\ crashed' \in (IF x.abort THEN {TRUE} ELSE BOOLEAN)
               /\ UNCHANGED <<fn, data, nodes, advice, frames>>
          ELSE /\ fn' = x.point.fn /\ data' = x.point.data /\ nodes' = x.point.nodes
               /\ advice' = x.advice
               /\ frames' = [u \in Threads |->
                                IF u = t THEN x.frame
                                ELSE [frames[u] EXCEPT !.stale =
                                         @ \/ (frames[u].pc # "idle" /\ data.present
                                                /\ ~x.point.data.present)]]
               /\ UNCHANGED <<crashed, ub>>
    /\ UNCHANGED <<fkind, last>>
    /\ UNCHANGED <<lisVars, idVars, typVars, passVars>>

\* The public entry returns to its caller, or the exception has left it.
Leave(t) ==
    /\ ~crashed /\ ~ub
    /\ frames[t].pc \in {"done", "thrown"}
    /\ frames' = [frames EXCEPT ![t] = IdleFrame]
    /\ UNCHANGED advVars
    /\ UNCHANGED <<lisVars, idVars, typVars, passVars>>

\* One thread: advice is attached between the calls, and by advice bodies.
EvalNext ==
    \/ \E c \in Chains : \E function \in EvalFns(c) : Quiet /\ Extend(c, function, 0)
    \/ \E args \in CallArgs : Enter(1, args)
    \/ Step(1)
    \/ Leave(1)

\* Several threads call the public entry; advice is attached only while no
\* call is in flight.
ThreadNext ==
    \/ \E c \in Chains : \E function \in SharedFns(c) : Quiet /\ Extend(c, function, 0)
    \/ \E t \in Threads, args \in CallArgs : Enter(t, args)
    \/ \E t \in Threads : Step(t)
    \/ \E t \in Threads : Leave(t)

\* ------------------------------------------------------------------------
\* Registry of extension points and listener lifecycle
\* ------------------------------------------------------------------------

Listeners == {"L1", "L2"}
Keys == {"m::f", "m::g"}
Points == 1..MaxPoints
NoPoint == 0

\* registry().values
Registered == {registry[k] : k \in Keys} \ {NoPoint}

\* How many entries of the listener vector are this listener.
Occurrences(l) == Cardinality({i \in 1..Len(listeners) : listeners[i] = l})

NoCalls == [l \in Listeners |-> [p \in Points |-> 0]]

\* Internal::create_extension_point: a new FnExtensionPoint, then
\* register_extension_point: registry()[key] = &pt and every entry of the
\* listener vector gets on_extension_point_register(pt).
create_extension_point(key) ==
    /\ ~torn_down
    /\ Len(point_key) < MaxPoints
    /\ LET pt == Len(point_key) + 1
       IN  /\ point_key' = Append(point_key, key)
           /\ registry' = [registry EXCEPT ![key] = pt]
           /\ on_register' = [l \in Listeners |->
                                 [on_register[l] EXCEPT ![pt] = @ + Occurrences(l)]]
           /\ due' = [l \in Listeners |->
                         IF phase[l] = "replay" THEN due[l] \cup {pt} ELSE due[l]]
    /\ UNCHANGED <<listeners, added, on_unregister, phase, slot, torn_down, teardown>>
    /\ UNCHANGED <<advVars, idVars, typVars, extVars>>

\* Listener::add
ListenerAdd(l, notify_existing_extension_points) ==
    /\ ~torn_down
    /\ Len(listeners) < MaxListed
    /\ listeners' = Append(listeners, l)
    /\ added' = [added EXCEPT ![l] = TRUE]
    /\ LET fresh == Occurrences(l) = 0
           was == IF fresh THEN [p \in Points |-> 0] ELSE on_register[l]
       IN  /\ on_register' = [on_register EXCEPT ![l] =
                [p \in Points |->
                    IF notify_existing_extension_points /\ p \in Registered
                    THEN was[p] + 1 ELSE was[p]]]
           /\ on_unregister' = [on_unregister EXCEPT ![l] =
                IF fresh THEN [p \in Points |-> 0] ELSE @]
           /\ due' = [due EXCEPT ![l] = IF fresh THEN Registered ELSE @]
           /\ phase' = [phase EXCEPT ![l] =
                IF ~fresh THEN @
                ELSE IF notify_existing_extension_points THEN "replay" ELSE "silent"]
    /\ UNCHANGED <<registry, point_key, slot, torn_down, teardown>>
    /\ UNCHANGED <<advVars, idVars, typVars, extVars>>

\* Listener::remove
ListenerRemove(l, notify_existing_extension_points) ==
    /\ ~torn_down
    /\ IF added[l]
       THEN /\ listeners' = SelectSeq(listeners, LAMBDA x : x # l)
            /\ on_unregister' = [on_unregister EXCEPT ![l] =
                 [p \in Points |->
                     IF notify_existing_extension_points /\ p \in Registered
                     THEN @[p] + 1 ELSE @[p]]]
            /\ phase' = [phase EXCEPT ![l] =
                 IF @ = "replay" /\ notify_existing_extension_points THEN "done"
                 ELSE "detached"]
       ELSE UNCHANGED <<listeners, on_unregister, phase>>
    /\ added' = [added EXCEPT ![l] = FALSE]
    /\ UNCHANGED <<registry, point_key, on_register, due, slot, torn_down, teardown>>
    /\ UNCHANGED <<advVars, idVars, typVars, extVars>>

\* FnExtensionPoint::get: the entry of the key, or nullptr.
get(reg, key) == IF key \in DOMAIN reg THEN reg[key] ELSE NoPoint

\* The user of an extension point changes what its slot holds: extend_*
\* stores the extended entry, replace the given function, reset and the
\* removal of the last advice the original.
Use(pt, f) ==
    /\ ~torn_down
    /\ pt \in 1..Len(point_key)
    /\ slot[pt] # f
    /\ slot' = [slot EXCEPT ![pt] = f]
    /\ UNCHANGED <<registry, point_key, listeners, added, on_register, on_unregister, due,
                   phase, torn_down, teardown>>
    /\ UNCHANGED <<advVars, idVars, typVars, extVars>>

\* The orders in which a loop over the registry can meet its entries.
Orders(pts) ==
    {o \in [1..Cardinality(pts) -> pts] : \A i, j \in DOMAIN o : o[i] = o[j] => i = j}

\* What empty_registry does for one entry: every entry of the listener
\* vector gets on_extension_point_unregister, then pt->reset(), then delete pt.
Unregistered(pt) ==
    [i \in 1..Len(listeners) |-> [ev |-> "on_unregister", pt |-> pt, listener |-> listeners[i]]]
    \o <<[ev |-> "reset", pt |-> pt, listener |-> "none"],
         [ev |-> "delete", pt |-> pt, listener |-> "none"]>>

RECURSIVE Emptied(_, _)
Emptied(o, i) == IF i > Len(o) THEN <<>> ELSE Unregistered(o[i]) \o Emptied(o, i + 1)

\* empty_registry, the destructor function of the library: every entry of
\* the registry in turn, then registry().clear().
empty_registry ==
    /\ ~torn_down
    /\ \E o \in Orders(Registered) :
          /\ teardown' = Emptied(o, 1)
          /\ on_unregister' = [l \in Listeners |-> [p \in Points |->
                 IF p \in Registered THEN on_unregister[l][p] + Occurrences(l)
                 ELSE on_unregister[l][p]]]
          /\ slot' = [p \in Points |-> IF p \in Registered THEN reset(Point(slot[p], NoData, nodes)).fn
                                        ELSE slot[p]]
    /\ registry' = [k \in Keys |-> NoPoint]
    /\ torn_down' = TRUE
    /\ UNCHANGED <<point_key, listeners, added, on_register, due, phase>>
    /\ UNCHANGED <<advVars, idVars, typVars, extVars>>

LisNext ==
    \/ \E key \in Keys : create_extension_point(key)
    \/ \E l \in Listeners, notify \in BOOLEAN : ListenerAdd(l, notify)
    \/ \E l \in Listeners, notify \in BOOLEAN : ListenerRemove(l, notify)
    \/ \E pt \in Points, f \in FnValues : Use(pt, f)
    \/ empty_registry

\* ------------------------------------------------------------------------
\* get_unique_advice_id
\* ------------------------------------------------------------------------

\* typedef uint32_t AdviceId, held as two limbs of half the width.
AdviceIdBits == 32
Limb == 2 ^ (AdviceIdBits \div 2)
AdviceId(hi, lo) == [hi |-> hi, lo |-> lo]
Zero == AdviceId(0, 0)

\* next_id++ on a uint32_t
Increment(v) ==
    IF v.lo + 1 = Limb THEN AdviceId((v.hi + 1) % Limb, 0)
    ELSE AdviceId(v.hi, v.lo + 1)

Below(v, w) == v.hi < w.hi \/ (v.hi = w.hi /\ v.lo < w.lo)

get_unique_advice_id ==
    /\ Len(returned) < MaxIdCalls
    /\ returned' = Append(returned, next_id)
    /\ next_id' = Increment(next_id)
    /\ UNCHANGED first_id
    /\ UNCHANGED <<advVars, lisVars, typVars, extVars>>

IdNext == get_unique_advice_id

\* ------------------------------------------------------------------------
\* Type descriptors
\* ------------------------------------------------------------------------

NoDesc == 0
TModules == {"m1", "m2"}
Signatures == {"sig"}
StructModules == {"m1"}
StructNames == {"S", ""}
Counts == {2}

Desc(kind) ==
    [kind |-> kind, module |-> "", name |-> "", bits |-> 0, elem |-> NoDesc, num |-> 0,
     elems |-> <<>>, forward |-> FALSE, ptr |-> NoDesc]

\* IntTypeDesc IntTypeDesc::i32_type(32)
i32_type == [Desc("int") EXCEPT !.bits = 32]

RECURSIVE get_signature(_, _)
RECURSIVE Joined(_, _, _)

\* The loops of StructTypeDesc::get_signature and FnTypeDesc::get_signature:
\* the signatures of the elements, separated by ", ".
Joined(h, es, i) ==
    IF i > Len(es) THEN ""
    ELSE (IF i > 1 THEN ", " ELSE "") \o get_signature(h, h[es[i]]) \o Joined(h, es, i + 1)

\* TypeDesc::get_signature of a descriptor with the fields d.
get_signature(h, d) ==
    CASE d.kind = "unknown" -> d.name
      [] d.kind = "int" -> "int" \o ToString(d.bits)
      [] d.kind = "pointer" -> get_signature(h, h[d.elem]) \o "*"
      [] d.kind = "array" -> "[" \o ToString(d.num) \o " x " \o get_signature(h, h[d.elem]) \o "]"
      [] d.kind = "vector" -> "<" \o ToString(d.num) \o " x " \o get_signature(h, h[d.elem]) \o ">"
      [] d.kind = "struct" ->
            IF d.name = "" THEN "{" \o Joined(h, d.elems, 1) \o "}"
            ELSE "'" \o d.module \o "::" \o d.name \o "' "
      [] d.kind = "function" -> get_signature(h, h[d.elem]) \o " (" \o Joined(h, d.elems, 1) \o ")"

\* get_signature calls itself without bound: it returns only when no chain of
\* elements leads back to a struct that expands its elements.
RECURSIVE Returns_signature(_, _, _)
Returns_signature(h, d, fuel) ==
    CASE d.kind \in {"unknown", "int"} -> TRUE
      [] d.kind \in {"pointer", "array", "vector"} ->
            fuel > 0 /\ Returns_signature(h, h[d.elem], fuel - 1)
      [] d.kind = "struct" ->
            \/ d.name # ""
            \/ fuel > 0 /\ \A i \in 1..Len(d.elems) : Returns_signature(h, h[d.elems[i]], fuel - 1)
      [] d.kind = "function" ->
            /\ fuel > 0
            /\ Returns_signature(h, h[d.elem], fuel - 1)
            /\ \A i \in 1..Len(d.elems) : Returns_signature(h, h[d.elems[i]], fuel - 1)

NoTables ==
    [unknowns |-> <<>>, array_types |-> <<>>, vector_types |-> <<>>,
     anon_structs |-> <<>>, named_structs |-> <<>>, function_types |-> <<>>]

Find(table, key) == IF key \in DOMAIN table THEN table[key] ELSE NoDesc

\* What a request leaves behind: the heap, the tables, and the descriptor returned.
Got(h, t, td) == [descs |-> h, tables |-> t, td |-> td, abort |-> FALSE]

\* A constructor that looks its key up in a table and makes the descriptor
\* with fields d when the key is not there.
Interned(h, t, table, key, d) ==
    IF Find(t[table], key) = NoDesc
    THEN Got(Append(h, d), [t EXCEPT ![table] = (key :> (Len(h) + 1)) @@ @], Len(h) + 1)
    ELSE Got(h, t, Find(t[table], key))

\* A constructor that uses the signature of its candidate as the key; the
\* process dies when get_signature does not return.
WithSignature(h, t, table, td) ==
    IF Returns_signature(h, td, Len(h) + 1)
    THEN Interned(h, t, table, get_signature(h, td), td)
    ELSE [Got(h, t, NoDesc) EXCEPT !.abort = TRUE]

\* UnknownTypeDesc::get
UnknownTypeDesc_get(h, t, module, signature) ==
    Interned(h, t, "unknowns", module \o "::" \o signature,
             [Desc("unknown") EXCEPT !.module = module, !.name = signature])

PointerTypeDesc_get_fresh(h, t, element_type) ==
    Got([Append(h, [Desc("pointer") EXCEPT !.elem = element_type])
            EXCEPT ![element_type].ptr = Len(h) + 1],
        t, Len(h) + 1)

\* PointerTypeDesc::get
PointerTypeDesc_get(h, t, element_type) ==
    IF h[element_type].ptr = NoDesc
    THEN Got([Append(h, [Desc("pointer") EXCEPT !.elem = element_type])
                 EXCEPT ![element_type].ptr = Len(h) + 1],
             t, Len(h) + 1)
    ELSE Got(h, t, h[element_type].ptr)

\* ArrayTypeDesc::get
ArrayTypeDesc_get(h, t, contained_type, num_elems) ==
    Interned(h, t, "array_types", <<contained_type, num_elems>>,
             [Desc("array") EXCEPT !.elem = contained_type, !.num = num_elems])

\* VectorTypeDesc::get
VectorTypeDesc_get(h, t, contained_type, num_elems) ==
    Interned(h, t, "vector_types", <<contained_type, num_elems>>,
             [Desc("vector") EXCEPT !.elem = contained_type, !.num = num_elems])

\* StructTypeDesc::get_anon: the candidate is made first and deleted again
\* when its signature is already a key.
get_anon(h, t, elem_types) ==
    LET td == [Desc("struct") EXCEPT !.elems = elem_types]
    IN  WithSignature(h, t, "anon_structs", td)

set_elem_types_overwrites(d, elem_types) ==
    [desc |-> [d EXCEPT !.elems = elem_types, !.forward = FALSE], assert |-> TRUE]

\* StructTypeDesc::set_elem_types
set_elem_types(d, elem_types) ==
    IF d.forward THEN [desc |-> [d EXCEPT !.elems = elem_types, !.forward = FALSE], assert |-> TRUE]
    ELSE [desc |-> d, assert |-> d.elems = elem_types]

\* Internal::set_struct_elem_types: the descriptor is taken to be a
\* StructTypeDesc and its set_elem_types is called; nothing is returned.
set_struct_elem_types(h, t, type, elem_types) ==
    LET set == set_elem_types(h[type], elem_types)
    IN  [Got([h EXCEPT ![type] = set.desc], t, NoDesc) EXCEPT !.abort = ~set.assert]

\* StructTypeDesc::get_named
get_named(h, t, module, name, elem_types) ==
    LET key == module \o "::" \o name
        td == Find(t.named_structs, key)
    IN  IF td = NoDesc
        THEN Interned(h, t, "named_structs", key,
                      [Desc("struct") EXCEPT !.module = module, !.name = name,
                                             !.elems = elem_types])
        ELSE LET set == set_elem_types(h[td], elem_types)
             IN  [Got([h EXCEPT ![td] = set.desc], t, td) EXCEPT !.abort = ~set.assert]

\* StructTypeDesc::get_forward
get_forward(h, t, module, name) ==
    Interned(h, t, "named_structs", module \o "::" \o name,
             [Desc("struct") EXCEPT !.module = module, !.name = name, !.forward = TRUE])

\* FnTypeDesc::get: the candidate is made first and deleted again when its
\* signature is already a key.
FnTypeDesc_get(h, t, return_type, arg_types) ==
    LET td == [Desc("function") EXCEPT !.elem = return_type, !.elems = arg_types]
    IN  WithSignature(h, t, "function_types", td)

\* A request as the caller states it.
Request(ctor, module, name, elem, num, elems) ==
    [ctor |-> ctor, module |-> module, name |-> name, elem |-> elem, num |-> num, elems |-> elems]

NoRequest == Request("none", "", "", NoDesc, 0, <<>>)

\* The descriptors a caller may hand to set_struct_elem_types.
Structs(h) == {s \in 1..Len(h) : h[s].kind = "struct"}

\* The element lists a caller hands to set_struct_elem_types: none, one
\* element, or an i32 and one more element (the Node of the tests).
SetArgs(h) == {<<>>} \cup {<<e>> : e \in 1..Len(h)} \cup {<<1, e>> : e \in 1..Len(h)}

\* The key of named_structs for a descriptor that get_named or get_forward made.
NamedKey(d) == d.module \o "::" \o d.name

Requests(h) ==
    LET ids == 1..Len(h)
        seqs == {<<>>} \cup {<<e>> : e \in ids}
    IN  {Request("unknown", m, sg, NoDesc, 0, <<>>) : m \in TModules, sg \in Signatures}
        \cup {Request("pointer", "", "", e, 0, <<>>) : e \in ids}
        \cup {Request("array", "", "", e, n, <<>>) : e \in ids, n \in Counts}
        \cup {Request("vector", "", "", e, n, <<>>) : e \in ids, n \in Counts}
        \cup {Request("anon", "", "", NoDesc, 0, es) : es \in seqs}
        \cup {Request("named", m, n, NoDesc, 0, es) : m \in StructModules, n \in StructNames, es \in seqs}
        \cup {Request("forward", m, n, NoDesc, 0, <<>>) : m \in StructModules, n \in StructNames}
        \cup {Request("function", "", "", e, 0, es) : e \in ids, es \in seqs}
        \cup {Request("set", "", "", s, 0, es) : s \in Structs(h), es \in SetArgs(h)}

Serve(h, t, r) ==
    CASE r.ctor = "unknown" -> UnknownTypeDesc_get(h, t, r.module, r.name)
      [] r.ctor = "pointer" -> PointerTypeDesc_get(h, t, r.elem)
      [] r.ctor = "array" -> ArrayTypeDesc_get(h, t, r.elem, r.num)
      [] r.ctor = "vector" -> VectorTypeDesc_get(h, t, r.elem, r.num)
      [] r.ctor = "anon" -> get_anon(h, t, r.elems)
      [] r.ctor = "named" -> get_named(h, t, r.module, r.name, r.elems)
      [] r.ctor = "forward" -> get_forward(h, t, r.module, r.name)
      [] r.ctor = "function" -> FnTypeDesc_get(h, t, r.elem, r.elems)
      [] r.ctor = "set" -> set_struct_elem_types(h, t, r.elem, r.elems)

\* One call of a constructor or of set_struct_elem_types. A failed assert
\* ends the process (the build sets no NDEBUG), and so does a get_signature
\* that does not return. set_struct_elem_types returns nothing, so it is
\* kept in called and not in results.
Requested(r, max) ==
    /\ ~type_abort
    /\ \/ r \in DOMAIN results \cup called
       \/ Cardinality(DOMAIN results) + Cardinality(called) < max
    /\ \E got \in {Serve(descs, tables, r)} :
          \/ /\ got.abort
             /\ type_abort' = TRUE
             /\ failed' = r
             /\ UNCHANGED <<descs, tables, results, called>>
          \/ /\ ~got.abort
             /\ descs' = got.descs
             /\ tables' = got.tables
             /\ results' = IF r.ctor = "set" THEN results
                           ELSE IF r \in DOMAIN results
                           THEN [results EXCEPT ![r] = @ \cup {got.td}]
                           ELSE (r :> {got.td}) @@ results
             /\ called' = IF r.ctor = "set" THEN called \cup {r} ELSE called
             /\ UNCHANGED <<type_abort, failed>>
    /\ UNCHANGED <<advVars, lisVars, idVars, extVars>>

Get(r) == Requested(r, MaxRequests)

TypNext == \E r \in Requests(descs) : Get(r)

\* The constructors whose table key is a signature (get_anon, FnTypeDesc::get)
\* and the unknown descriptors of the modules.
KeyRequests(h) ==
    {r \in Requests(h) : r.ctor \in {"unknown", "anon", "function"}}

GetKeyed(r) == Requested(r, MaxKeyed)

TypKeyNext == \E r \in KeyRequests(descs) : GetKeyed(r)

\* ------------------------------------------------------------------------
\* The instrumentation pass over one module
\* ------------------------------------------------------------------------

\* An llvm::Function of the module: its name, whether it is a declaration,
\* whether it is variadic, and what its body is ("none" for a declaration,
\* "own" for the code it came with).
Function(name, decl, vararg, body) ==
    [name |-> name, decl |-> decl, vararg |-> vararg, body |-> body]

\* The modules given to the pass: up to MaxFunctions functions f1, f2, ...,
\* each a declaration or a definition, variadic or not.
Modules ==
    UNION {{[i \in 1..n |-> Function("f" \o ToString(i), a[i][1], a[i][2],
                                      IF a[i][1] THEN "none" ELSE "own")] :
              a \in [1..n -> BOOLEAN \X BOOLEAN]} : n \in 1..MaxFunctions}

\* AlwaysInstrument, and TargetedInstrument with its sets of target functions
\* and whether the module is among its target modules.
AlwaysInstrument == [kind |-> "always", target_functions |-> {}, target_module |-> TRUE]
Predicates ==
    {AlwaysInstrument}
    \cup {[kind |-> "targeted", target_functions |-> t, target_module |-> b] :
             t \in SUBSET {"f" \o ToString(i) : i \in 1..MaxFunctions}, b \in BOOLEAN}

\* ShouldInstrument::module and ShouldInstrument::function
should_instrument_module(p) == p.kind = "always" \/ p.target_module
should_instrument_function(p, function) ==
    p.kind = "always" \/ function.name \in p.target_functions

can_be_instrumented_any_definition(function) ==
    IF function.decl THEN "CAN_NOT_DECL" ELSE "CAN_INSTRUMENT"

can_be_instrumented(function) ==
    IF function.decl THEN "CAN_NOT_DECL"
    ELSE IF function.vararg THEN "CAN_NOT_VARARGS"
    ELSE "CAN_INSTRUMENT"

\* global_name: augmentum::<mid>__<suffix>__
global_name(mid, suffix) == "augmentum::" \o mid \o "__" \o suffix \o "__"

\* Module::getOrInsertFunction: a declaration of that name is appended when
\* the module has no function of that name.
getOrInsertFunction(fns, name) ==
    IF \E i \in 1..Len(fns) : fns[i].name = name THEN fns
    ELSE Append(fns, Function(name, TRUE, FALSE, "none"))

\* AugmentumFunction::transform for the function at f: make_original_clone,
\* make_reflect, make_extended, rewrite_function and make_init in turn
\* (declare_globals makes no function).
transform(fns, cs, f, p) ==
    IF can_be_instrumented(fns[f]) = "CAN_INSTRUMENT" /\ should_instrument_function(p, fns[f])
    THEN LET n == fns[f].name
             Made(m, name, body) ==
                 LET g == getOrInsertFunction(m, name)
                     i == CHOOSE k \in 1..Len(g) : g[k].name = name
                 IN  [g EXCEPT ![i].decl = FALSE, ![i].body = body]
             m1 == Append(fns, Function(global_name(n, "original"), FALSE, FALSE, fns[f].body))
             m2 == Made(m1, global_name(n, "reflect"), "reflect")
             m3 == getOrInsertFunction(Made(m2, global_name(n, "extended"), "extended"),
                                       "Internal::eval")
             m4 == [m3 EXCEPT ![f].body = "fn_ptr"]
             m5 == getOrInsertFunction(Made(m4, global_name(n, "init"), "init"),
                                       "Internal::create_extension_point")
         IN  [fns |-> m5, ctors |-> Append(cs, [fn |-> global_name(n, "init"), of |-> n]),
              transformed |-> TRUE]
    ELSE [fns |-> fns, ctors |-> cs, transformed |-> FALSE]

worklist_live(cpy, fns) == [i \in 1..Len(fns) |-> i]

\* The list the loop of run_instrumentation runs over: funs_cpy.
worklist(cpy, fns) == cpy

\* Augmentum::runOnModule up to the loop of run_instrumentation: a dry run
\* only collects statistics; otherwise, if the predicate accepts the
\* module, the function list is copied.
runOnModule(m, p, dry) ==
    /\ pass_pc = "start"
    /\ input' = m /\ module_fns' = m /\ should_instrument' = p /\ DryRun' = dry
    /\ IF ~dry /\ should_instrument_module(p)
       THEN /\ funs_cpy' = [i \in 1..Len(m) |-> i]
            /\ pass_pc' = "loop"
       ELSE /\ funs_cpy' = <<>>
            /\ pass_pc' = "done"
    /\ UNCHANGED <<ctors, transformed_functions, considered>>
    /\ UNCHANGED <<advVars, lisVars, idVars, typVars, evalVars>>

\* One turn of the loop of run_instrumentation, or its end.
run_instrumentation ==
    /\ pass_pc = "loop"
    /\ LET w == worklist(funs_cpy, module_fns)
           k == Len(considered) + 1
       IN  IF k > Len(w)
           THEN /\ pass_pc' = "done"
                /\ UNCHANGED <<module_fns, ctors, transformed_functions, considered>>
           ELSE \E t \in {transform(module_fns, ctors, w[k], should_instrument)} :
                   /\ module_fns' = t.fns
                   /\ ctors' = t.ctors
                   /\ transformed_functions' = transformed_functions + (IF t.transformed THEN 1 ELSE 0)
                   /\ considered' = Append(considered, w[k])
                   /\ UNCHANGED pass_pc
    /\ UNCHANGED <<should_instrument, DryRun, funs_cpy, input>>
    /\ UNCHANGED <<advVars, lisVars, idVars, typVars, evalVars>>

PassNext ==
    \/ \E m \in Modules, p \in Predicates, dry \in BOOLEAN : runOnModule(m, p, dry)
    \/ run_instrumentation

\* ------------------------------------------------------------------------
\* Specifications
\* ------------------------------------------------------------------------

\* The state after construction: the point as its constructor leaves it
\* (data(nullptr), *fn == original), empty registry and listener vector, the
\* static descriptors and empty tables; the point belongs to one of the
\* functions fks, and next_id starts at one of ids (1 in a fresh process).
Init(fks, ids) ==
    /\ fn = original /\ data = NoData /\ nodes = [a \in Addr |-> NoNode]
    /\ advice = NoAdvice /\ crashed = FALSE /\ ub = FALSE
    /\ fkind \in fks /\ last = NoOp
    /\ registry = [k \in Keys |-> NoPoint]
    /\ point_key = <<>>
    /\ listeners = <<>>
    /\ added = [l \in Listeners |-> FALSE]
    /\ on_register = NoCalls
    /\ on_unregister = NoCalls
    /\ due = [l \in Listeners |-> {}]
    /\ phase = [l \in Listeners |-> "detached"]
    /\ slot = [p \in Points |-> original]
    /\ torn_down = FALSE
    /\ teardown = <<>>
    /\ next_id \in ids
    /\ first_id = next_id
    /\ returned = <<>>
    /\ descs = <<i32_type>>
    /\ tables = NoTables
    /\ results = <<>>
    /\ type_abort = FALSE
    /\ failed = NoRequest
    /\ called = {}
    /\ pass_pc = "start" /\ module_fns = <<>> /\ should_instrument = AlwaysInstrument
    /\ DryRun = FALSE /\ funs_cpy = <<>> /\ ctors = <<>> /\ transformed_functions = 0
    /\ input = <<>> /\ considered = <<>>
    /\ frames = [t \in Threads |-> IdleFrame]

\* static AdviceId next_id = 1
FreshId == {AdviceId(0, 1)}

\* The counter of a fresh process, or of one whose earlier calls have brought
\* it to within StartBack of the largest AdviceId.
StartIds == FreshId \cup {AdviceId(Limb - 1, Limb - j) : j \in 1..StartBack}

\* One extension point: its advice and the calls through its public entry.
Spec == Init(FnKinds, FreshId) /\ [][AdvNext]_vars

\* The registry and the listeners.
SpecListeners == Init({"add"}, FreshId) /\ [][LisNext]_vars

\* The advice id counter.
SpecAdviceId == Init({"add"}, StartIds) /\ [][IdNext]_vars

\* The type descriptor registry.
SpecTypes == Init({"add"}, FreshId) /\ [][TypNext]_vars

\* The descriptors that are interned by their signature.
SpecTypeKeys == Init({"add"}, FreshId) /\ [][TypKeyNext]_vars

\* One thread's calls of an Extended point, with advice bodies that throw
\* or change the point they run on.
SpecEval == Init({"add"}, FreshId) /\ [][EvalNext]_vars

\* Calls of an Extended point by several threads.
SpecThreads == Init({"add"}, FreshId) /\ [][ThreadNext]_vars

\* One run of the instrumentation pass over one module.
SpecPass == Init({"add"}, FreshId) /\ [][PassNext]_vars

\* ------------------------------------------------------------------------
\* Properties of the advice store (specification Spec)
\* ------------------------------------------------------------------------

C2_LastRemovalRestoresOriginal ==
    [][/\ (/\ \/ \E c \in Chains : \E handle \in Handles(c) : RemoveHandle(c, handle)
              \/ \E c \in Chains, id \in AdviceIds : RemoveId(c, id)
              \/ \E id \in AdviceIds : Remove(id)
           /\ is_extended /\ data.present
           /\ advice # NoAdvice
           /\ advice' = NoAdvice)
          => (fn' = original /\ ~data'.present)
       /\ (/\ \E args \in CallArgs : Call(args)
           /\ advice = NoAdvice
           /\ is_original \/ (is_extended /\ data.present))
          => (~crashed' /\ last'.call.trace = <<[ev |-> "original", node |-> NULL]>>)
      ]_advVars

\* C3: removal by a non-zero id removes, from each chain it targets, every
\* node that has the id (any number of them, at any positions), keeps the
\* other nodes of the chain in their order, and leaves the other chains as
\* they were.
C3_IdRemovalRemovesEveryMatch ==
    [][LET Content(h, d, c) ==
               LET l == ListNodes(h, d.head[c])
               IN  [i \in 1..Len(l) |-> [function |-> h[l[i]].function, id |-> h[l[i]].id,
                                         live |-> h[l[i]].live]]
           Kept(s, id) == LET Keep(x) == x.id # id IN SelectSeq(s, Keep)
       IN  \A id \in AdviceIds \ {0} :
              /\ \A c \in Chains :
                    (RemoveId(c, id) /\ is_extended /\ data.present)
                    => /\ ~crashed'
                       /\ \A c2 \in Chains :
                             Content(nodes', data', c2) =
                                 IF c2 = c THEN Kept(Content(nodes, data, c2), id)
                                 ELSE Content(nodes, data, c2)
              /\ (Remove(id) /\ is_extended /\ data.present)
                 => /\ ~crashed'
                    /\ \A c2 \in Chains :
                          Content(nodes', data', c2) = Kept(Content(nodes, data, c2), id)
      ]_advVars

\* C4: one invocation of an Extended point runs every installed before
\* advice once, latest inserted first; then enters the around advice
\* outermost (latest inserted) first, runs the original once innermost, and
\* leaves the around advice in the opposite order; then runs every installed
\* after advice once, latest inserted first.
C4_EvaluationOrder ==
    LET Events(s, ev) == [i \in 1..Len(s) |-> [ev |-> ev, node |-> s[i].node]]
        Reverse(s) == [i \in 1..Len(s) |-> s[Len(s) + 1 - i]]
    IN  (/\ last.op = "call" /\ last.via = extended /\ data.present
         /\ \A x \in Range(advice["around"]) : calls_previous(x.function))
        => /\ ~crashed
           /\ last.call.trace =
                 Events(advice["before"], "before")
                 \o Events(advice["around"], "around")
                 \o <<[ev |-> "original", node |-> NULL]>>
                 \o Reverse(Events(advice["around"], "around_ret"))
                 \o Events(advice["after"], "after")

\* C5: on an Extended point the around chain links the installed around advice from the most
\* recently inserted to the earliest: the evaluator enters at the latest,
\* call_previous(h) goes to the next most recently inserted one that is still
\* installed, and from the earliest to the reflect thunk (NULL).
C5_CallPreviousChain ==
    LET g == advice["around"]
    IN  (is_extended /\ data.present /\ ~crashed)
        => /\ data.head["around"] = (IF g = <<>> THEN NULL ELSE g[1].node)
           /\ \A i \in 1..Len(g) :
                 /\ nodes[g[i].node].live
                 /\ nodes[g[i].node].next = (IF i = Len(g) THEN NULL ELSE g[i + 1].node)

\* C6: on a point with around advice only, each calling call_previous and
\* then mutating the return value, a call returns the original's result with
\* the mutations applied innermost (earliest inserted) first; k installed
\* add-one advice give original + k.
C6_AroundResult ==
    LET g == advice["around"]
        Applied[i \in 0..Len(g)] ==
            IF i = 0 THEN last.args.a + last.args.b
            ELSE mutation(g[Len(g) + 1 - i].function, Applied[i - 1])
        AddOnes == Cardinality({i \in 1..Len(g) : g[i].function = "addOne"})
    IN  (/\ last.op = "call" /\ last.via = extended /\ fkind = "add"
         /\ g # <<>> /\ advice["before"] = <<>> /\ advice["after"] = <<>>
         /\ \A x \in Range(g) : calls_previous(x.function))
        => /\ ~crashed
           /\ last.call.ret = Applied[Len(g)]
           /\ (AddOnes = Len(g)) => (last.call.ret = last.args.a + last.args.b + Len(g))

\* C7: a call through the public entry of a point in Original state runs the
\* preserved original exactly once with the caller's arguments, runs no
\* advice and no evaluator, and gives the original's return value and
\* by-reference effect.
C7_OriginalCallIsOriginal ==
    (last.op = "call" /\ last.via = original)
    => /\ ~crashed
       /\ ~last.call.abort /\ ~last.call.touched
       /\ last.call.trace = <<[ev |-> "original", node |-> NULL]>>
       /\ last.call.ret = original_fn(fkind, last.args.a, last.args.b, last.args.cell).ret
       /\ last.call.cell = original_fn(fkind, last.args.a, last.args.b, last.args.cell).cell

C7_Witness ==
    /\ last.op = "call" /\ last.via = original
    /\ fkind = "voidTypeTest" /\ last.call.cell = last.args.cell + 1

\* C13: extend_before, extend_around or extend_after on an Original or an
\* Extended point returns with the point Extended (slot = extended entry,
\* advice state present); the new node, with the given advice and id, is the
\* head of its chain, the nodes that were in the chain follow it in their
\* order, the other two chains are as they were, and the handle returned is
\* the new node.
C13_ExtendPushesHead ==
    [][LET Content(h, d, c) ==
               LET l == ListNodes(h, d.head[c])
               IN  [i \in 1..Len(l) |-> [function |-> h[l[i]].function, id |-> h[l[i]].id,
                                         live |-> h[l[i]].live]]
       IN  \A c \in Chains, id \in AdviceIds : \A function \in ChainFns(c) :
              (Extend(c, function, id) /\ (is_original \/ is_extended))
              => /\ ~crashed' /\ fn' = extended /\ data'.present
                 /\ \A c2 \in Chains :
                       Content(nodes', data', c2) =
                           IF c2 = c
                           THEN <<[function |-> function, id |-> id, live |-> TRUE]>>
                                \o Content(nodes, data, c2)
                           ELSE Content(nodes, data, c2)
                 /\ advice'[c][1].node = data'.head[c]
      ]_advVars

C13_Witness ==
    /\ last.op = "extend" /\ last.via = extended
    /\ is_extended /\ Len(advice["around"]) >= 2 /\ advice["before"] # <<>>

\* C14: replace(f), from any state and for any f, returns with the advice
\* state absent and every node freed, with the slot equal to f and the point
\* Replaced; a later public call of the point goes to f and runs no advice.
C14_ReplaceLeavesReplaced ==
    /\ last.op = "replace"
       => /\ ~crashed /\ ~data.present /\ \A a \in Addr : nodes[a] = NoNode
          /\ is_replaced
    /\ (last.op = "call" /\ last.via # original /\ ~data.present)
       => /\ ~crashed
          /\ last.call.trace = <<[ev |-> "replacement", node |-> NULL]>>

C16_IdZeroRemovesNothing ==
    [][LET Zeros(h, d, c) ==
               LET l == ListNodes(h, d.head[c])
               IN  Cardinality({i \in 1..Len(l) : h[l[i]].id = 0 /\ h[l[i]].live})
       IN  /\ \A c \in Chains :
                 RemoveId(c, 0) => UNCHANGED <<fn, data, nodes, advice, crashed, ub>>
           /\ Remove(0) => UNCHANGED <<fn, data, nodes, advice, crashed, ub>>
           /\ \A c \in Chains :
                 Zeros(nodes', data', c) < Zeros(nodes, data, c)
                 => \/ \E handle \in Handles(c) : RemoveHandle(c, handle)
                    \/ \E f \in FnValues : Replace(f)
                    \/ Reset
      ]_advVars

C16_Witness ==
    /\ last.op \in {"remove_id", "remove"} /\ last.no_id
    /\ is_extended /\ data.present
    /\ \E x \in Range(advice["around"]) : x.id = 0
    /\ \E x \in Range(advice["before"]) : x.id # 0

\* C20: when an installed around advice returns without calling
\* call_previous, a call of the Extended point runs every before advice
\* once, enters the around advice from the outermost down to the first one
\* that does not call call_previous and leaves them again, runs neither the
\* around advice inside that one nor the original, then runs every after
\* advice once; the caller gets what the advice left in the cell.
C20_AroundWithoutPreviousElides ==
    LET g == advice["around"]
        Stops == {i \in 1..Len(g) : ~calls_previous(g[i].function)}
        k == CHOOSE i \in Stops : \A j \in Stops : i <= j
        Outer == SubSeq(g, 1, k)
        Events(s, ev) == [i \in 1..Len(s) |-> [ev |-> ev, node |-> s[i].node]]
        Reverse(s) == [i \in 1..Len(s) |-> s[Len(s) + 1 - i]]
        Applied[i \in 0..k] ==
            IF i = 0 THEN 0 ELSE mutation(g[k + 1 - i].function, Applied[i - 1])
    IN  (last.op = "call" /\ last.via = extended /\ data.present /\ Stops # {})
        => /\ ~crashed
           /\ last.call.trace =
                 Events(advice["before"], "before")
                 \o Events(Outer, "around")
                 \o Reverse(Events(Outer, "around_ret"))
                 \o Events(advice["after"], "after")
           /\ IF fkind = "add" THEN last.call.ret = Applied[k]
              ELSE last.call.cell = Applied[k]

\* C28: after every public operation on the point that has returned
\* (extend_*, remove_* by handle or id, remove, replace(f) for any f, reset)
\* is_extended() holds exactly when the advice state is present, and a
\* present advice state has a chain that is not empty; and no call through
\* the public entry enters the evaluator on a point without advice state.
C28_ExtendedIffAdviceState ==
    /\ (/\ ~crashed /\ ~ub
        /\ last.op \in {"extend", "remove_handle", "remove_id", "remove", "replace", "reset"})
       => /\ is_extended <=> data.present
          /\ data.present => ~data_empty(data)
    /\ (last.op = "call" /\ last.via = extended) => ~last.call.abort

\* C29: extend_before, extend_around or extend_after on a Replaced point
\* returns with the point Extended: the slot holds the extended entry, the
\* new node is the only node of the three chains, and a call through the
\* public entry does not reach the replacement; removing that advice
\* afterwards leaves the point Original, with no advice state.
C29_ExtendOnReplaced ==
    [][LET Content(h, d, c) ==
               LET l == ListNodes(h, d.head[c])
               IN  [i \in 1..Len(l) |-> [function |-> h[l[i]].function, id |-> h[l[i]].id,
                                         live |-> h[l[i]].live]]
       IN  /\ \A c \in Chains, id \in AdviceIds : \A function \in ChainFns(c) :
                 (Extend(c, function, id) /\ is_replaced)
                 => /\ ~crashed' /\ fn' = extended /\ data'.present
                    /\ \A c2 \in Chains :
                          Content(nodes', data', c2) =
                              IF c2 = c
                              THEN <<[function |-> function, id |-> id, live |-> TRUE]>>
                              ELSE <<>>
                    /\ \A args \in CallArgs :
                          LET r == public_entry(fn', nodes', data', fkind, args)
                          IN  /\ ~r.abort /\ ~r.touched
                              /\ \A i \in 1..Len(r.trace) : r.trace[i].ev # "replacement"
           /\ (/\ last.op = "extend" /\ last.via \in Replacements
               /\ \/ \E c \in Chains : \E handle \in Handles(c) : RemoveHandle(c, handle)
                  \/ \E c \in Chains, id \in AdviceIds : RemoveId(c, id)
                  \/ \E id \in AdviceIds : Remove(id)
               /\ advice' = NoAdvice)
              => (~crashed' /\ fn' = original /\ ~data'.present)
      ]_advVars

C29_Witness ==
    /\ last.op = "extend" /\ last.via \in Replacements
    /\ is_extended /\ data.present /\ ~crashed
    /\ Len(advice["before"]) + Len(advice["around"]) + Len(advice["after"]) = 1

\* ------------------------------------------------------------------------
\* Properties of the listener lifecycle (specification SpecListeners)
\* ------------------------------------------------------------------------

\* C8: a listener attached with replay has received on_register exactly once
\* for each point that was registered when it attached or has been
\* registered since, and for no other point; once it has then been detached
\* with replay it has received on_unregister exactly once for each point it
\* was told is registered, and for no other point.
C8_ReplaySymmetry ==
    \A l \in Listeners :
        /\ phase[l] \in {"replay", "done"}
           => \A p \in Points : on_register[l][p] = (IF p \in due[l] THEN 1 ELSE 0)
        /\ phase[l] = "done"
           => \A p \in Points : on_unregister[l][p] = (IF on_register[l][p] > 0 THEN 1 ELSE 0)

\* C17: create_extension_point puts the new point into the registry under
\* its key and calls on_extension_point_register for it exactly once on each
\* listener that is attached, and on no other; and no step other than its
\* own add gives a detached listener a register or unregister call.
C17_RegisterNotifiesAttachedOnce ==
    [][/\ \A key \in Keys :
             create_extension_point(key)
             => LET pt == Len(point_key) + 1
                IN  /\ registry'[key] = pt
                    /\ \A l \in Listeners :
                          on_register'[l][pt] = (IF added[l] THEN 1 ELSE 0)
       /\ \A l \in Listeners :
             (~added[l] /\ ~added'[l])
             => (on_register'[l] = on_register[l] /\ on_unregister'[l] = on_unregister[l])
      ]_lisVars

\* C18: until teardown, FnExtensionPoint::get gives, for the key of every
\* point that create_extension_point has returned, that point, and nullptr
\* for a key under which nothing was registered.
C18_LookupReturnsRegistered ==
    ~torn_down
    => /\ \A pt \in 1..Len(point_key) : get(registry, point_key[pt]) = pt
       /\ \A key \in Keys \ Range(point_key) : get(registry, key) = NoPoint

\* C19: after empty_registry the registry is empty, and for every point that
\* was in it each attached listener got on_extension_point_unregister
\* exactly once, before the reset of the point, the point was reset (its
\* slot holds the original entry) and then deleted.
C19_TeardownNotifiesThenResets ==
    LET At(ev, pt) == {i \in 1..Len(teardown) : teardown[i].ev = ev /\ teardown[i].pt = pt}
        Told(l, pt) == {i \in At("on_unregister", pt) : teardown[i].listener = l}
        Processed == {teardown[i].pt : i \in 1..Len(teardown)}
    IN  torn_down
        => /\ Registered = {}
           /\ \A pt \in 1..Len(point_key) :
                 (pt \in Processed)
                 => /\ Cardinality(At("reset", pt)) = 1 /\ Cardinality(At("delete", pt)) = 1
                    /\ slot[pt] = original
                    /\ \A r \in At("reset", pt), x \in At("delete", pt) : r < x
                    /\ \A l \in Listeners :
                          /\ Cardinality(Told(l, pt)) = (IF added[l] THEN 1 ELSE 0)
                          /\ \A i \in Told(l, pt), r \in At("reset", pt) : i < r

\* ------------------------------------------------------------------------
\* Properties of one evaluation (specifications SpecEval and SpecThreads)
\* ------------------------------------------------------------------------

C22_CellsSharedByAllLayers ==
    \A t \in Threads :
        LET f == frames[t]
            B == f.entry.advice["before"]
            A == f.entry.advice["around"]
            F == f.entry.advice["after"]
            incs == Cardinality({i \in 1..Len(B) : B[i].function = "incArg"})
                    + Cardinality({i \in 1..Len(A) : A[i].function = "incFactor"})
            Applied[i \in 0..Len(A)] ==
                IF i = 0 THEN (f.args.a + incs) + f.args.b
                ELSE mutation(A[Len(A) + 1 - i].function, Applied[i - 1])
            After[i \in 0..Len(F)] ==
                IF i = 0 THEN Applied[Len(A)]
                ELSE mutation(F[i].function, After[i - 1])
        IN  (f.pc = "done" /\ f.entry.fn = extended) =>
                /\ f.a = f.args.a + incs
                /\ f.ret = After[Len(F)]

C22_Witness ==
    LET f == frames[1]
    IN  /\ f.pc = "done" /\ f.entry.fn = extended
        /\ Len(f.entry.advice["around"]) = 1
        /\ f.entry.advice["around"][1].function = "incFactor"
        /\ Len(f.entry.advice["after"]) = 1
        /\ f.entry.advice["after"][1].function = "double"
        /\ f.ret = 2 * ((f.args.a + 1) + f.args.b)

\* C24: while no operation changes the point, threads that call it at the
\* same time each run the advice of the point in the order, and receive the
\* result, of a call made alone: every step of an evaluation leaves the
\* slot, the advice lists and the registry as they are and changes the cells
\* of its own invocation only.
C24_ConcurrentInvocationsIndependent ==
    [][\A t \in Threads :
         LET f == frames'[t]
             B == f.entry.advice["before"]
             A == f.entry.advice["around"]
             F == f.entry.advice["after"]
             Events(q, ev) == [i \in 1..Len(q) |-> [ev |-> ev, node |-> q[i].node]]
             Back(q, ev) == [i \in 1..Len(q) |-> [ev |-> ev, node |-> q[Len(q) + 1 - i].node]]
             incs == Cardinality({i \in 1..Len(B) : B[i].function = "incArg"})
                     + Cardinality({i \in 1..Len(A) : A[i].function = "incFactor"})
             Applied[i \in 0..Len(A)] ==
                 IF i = 0 THEN (f.args.a + incs) + f.args.b
                 ELSE mutation(A[Len(A) + 1 - i].function, Applied[i - 1])
             After[i \in 0..Len(F)] ==
                 IF i = 0 THEN Applied[Len(A)]
                 ELSE mutation(F[i].function, After[i - 1])
         IN  /\ frames'[t] # frames[t] =>
                    /\ UNCHANGED <<fn, data, nodes, registry>>
                    /\ \A u \in Threads \ {t} : frames'[u] = frames[u]
             /\ (f.pc = "done" /\ f.entry.fn = extended) =>
                    /\ f.trace = Events(B, "before") \o Events(A, "around")
                                    \o <<[ev |-> "original", node |-> NULL]>>
                                    \o Back(A, "around_ret") \o Events(F, "after")
                    /\ f.ret = After[Len(F)]
    ]_vars

C24_Witness ==
    /\ frames[1].pc = "around" /\ frames[1].stack # <<>>
    /\ frames[2].pc = "done" /\ frames[2].entry.fn = extended
    /\ frames[1].args # frames[2].args
    /\ Len(advice["before"]) = 1 /\ Len(advice["around"]) = 1 /\ Len(advice["after"]) = 1
    /\ frames[2].ret # frames[2].args.a + frames[2].args.b

\* C25: an evaluation works on the advice the point had when it was
\* entered: advice that a body attaches or removes while it runs does not
\* change which advice the evaluation calls or in which order, and the
\* evaluation reads no deleted node and no deleted advice state.
C25_EvaluationOnSnapshot ==
    /\ ~ub
    /\ \A t \in Threads :
          LET f == frames[t]
              B == f.entry.advice["before"]
              A == f.entry.advice["around"]
              F == f.entry.advice["after"]
              Events(q, ev) == [i \in 1..Len(q) |-> [ev |-> ev, node |-> q[i].node]]
              Back(q, ev) == [i \in 1..Len(q) |-> [ev |-> ev, node |-> q[Len(q) + 1 - i].node]]
          IN  (f.pc = "done" /\ f.entry.fn = extended) =>
                  f.trace = Events(B, "before") \o Events(A, "around")
                                \o <<[ev |-> "original", node |-> NULL]>>
                                \o Back(A, "around_ret") \o Events(F, "after")

\* ------------------------------------------------------------------------
\* Properties of the instrumentation pass (specification SpecPass)
\* ------------------------------------------------------------------------

\* C23: when a pass that is not a dry run has finished, a function of the
\* module has been rewritten (its body calls through the slot and one
\* constructor creates its extension point) exactly if it is a definition,
\* is not variadic, and the predicate accepts the module and the function;
\* every other function of the module is as it was given and no constructor
\* creates an extension point for it.
C23_RewrittenIffEligible ==
    (pass_pc = "done" /\ ~DryRun)
    => \A i \in 1..Len(input) :
          LET f == input[i]
              eligible == /\ ~f.decl /\ ~f.vararg
                          /\ should_instrument_module(should_instrument)
                          /\ should_instrument_function(should_instrument, f)
              points == {k \in 1..Len(ctors) : ctors[k].of = f.name}
          IN  IF eligible
              THEN /\ module_fns[i] = [f EXCEPT !.body = "fn_ptr"]
                   /\ Cardinality(points) = 1
              ELSE /\ module_fns[i] = f
                   /\ points = {}

C23_Witness ==
    /\ pass_pc = "done" /\ ~DryRun /\ should_instrument.kind = "targeted"
    /\ \E i, j, k \in 1..Len(input) :
          /\ module_fns[i].body = "fn_ptr"
          /\ input[j].decl /\ module_fns[j] = input[j]
          /\ input[k].vararg /\ ~input[k].decl /\ module_fns[k] = input[k]
          /\ input[k].name \in should_instrument.target_functions

\* C26: the loop of run_instrumentation runs over the functions the module
\* had when the pass started, each exactly once and in order; no function
\* the pass has made (clone, reflect thunk, extended entry, constructor, or
\* a declaration of the runtime) is handled by the loop, rewritten, or given
\* an extension point; and when the pass has finished the constructors it
\* appended are one for each eligible function of the module.
C26_SnapshotProcessedOnce ==
    LET n == Len(input)
        Eligible == {i \in 1..n : /\ ~input[i].decl /\ ~input[i].vararg
                                  /\ should_instrument_function(should_instrument, input[i])}
    IN  /\ pass_pc = "loop" => funs_cpy = [i \in 1..n |-> i]
        /\ Len(considered) <= Len(funs_cpy)
        /\ \A k \in 1..Len(considered) : k <= Len(funs_cpy) /\ considered[k] = funs_cpy[k]
        /\ \A i \in (n + 1)..Len(module_fns) :
              /\ module_fns[i].body # "fn_ptr"
              /\ \A k \in 1..Len(ctors) : ctors[k].of # module_fns[i].name
        /\ \A k1, k2 \in 1..Len(ctors) : ctors[k1].of = ctors[k2].of => k1 = k2
        /\ (pass_pc = "done" /\ funs_cpy # <<>>)
           => /\ considered = funs_cpy
              /\ Len(ctors) = Cardinality(Eligible)
              /\ transformed_functions = Cardinality(Eligible)

C26_Witness ==
    /\ pass_pc = "done" /\ Len(ctors) = 2 /\ Len(input) = 3
    /\ Len(module_fns) > Len(input) + 8

\* ------------------------------------------------------------------------
\* Properties of the advice id counter (specification SpecAdviceId)
\* ------------------------------------------------------------------------

\* C9: get_unique_advice_id never returns 0 and never returns a value it has
\* returned before, in this run or in the calls that came before it.
C9_UniqueNonZero ==
    \A i \in 1..Len(returned) :
        /\ returned[i] # Zero
        /\ ~Below(returned[i], first_id)
        /\ \A j \in 1..(i - 1) : returned[j] # returned[i]

\* ------------------------------------------------------------------------
\* Properties of the type descriptor registry (specification SpecTypes)
\* ------------------------------------------------------------------------

\* C10: every request (constructor and arguments) has always returned one and
\* the same descriptor, whatever was constructed in between, and no two
\* pointer descriptors have the same element.
C10_EqualRequestsOneDescriptor ==
    /\ \A r \in DOMAIN results : Cardinality(results[r]) = 1
    /\ \A i, j \in 1..Len(descs) :
          (descs[i].kind = "pointer" /\ descs[j].kind = "pointer" /\ descs[i].elem = descs[j].elem)
          => i = j

\* C11: a named struct that refers to itself through a pointer field, built
\* by get_forward, get_ptr_type and set_struct_elem_types any number of
\* times, has one descriptor and one pointer descriptor: every named struct
\* descriptor is the entry of its (module, name), get_forward and the pointer
\* constructor have returned nothing else for it, and each pointer to the
\* struct among its elements is that one pointer descriptor.
C11_SelfReferenceOneDescriptor ==
    \A s \in Structs(descs) :
        LET d == descs[s]
            fwd == Request("forward", d.module, d.name, NoDesc, 0, <<>>)
            ptr == Request("pointer", "", "", s, 0, <<>>)
        IN  d.module # ""
            => /\ Find(tables.named_structs, NamedKey(d)) = s
               /\ fwd \in DOMAIN results => results[fwd] = {s}
               /\ ptr \in DOMAIN results => results[ptr] = {d.ptr}
               /\ \A p \in 1..Len(descs) :
                     (descs[p].kind = "pointer" /\ descs[p].elem = s) => p = d.ptr
               /\ d.ptr # NoDesc => (descs[d.ptr].kind = "pointer" /\ descs[d.ptr].elem = s)

C11_Witness ==
    \E s \in Structs(descs) :
        /\ descs[s].module # "" /\ ~descs[s].forward
        /\ descs[s].ptr # NoDesc
        /\ descs[s].elems = <<1, descs[s].ptr>>
        /\ Request("forward", descs[s].module, descs[s].name, NoDesc, 0, <<>>) \in DOMAIN results
        /\ Request("pointer", "", "", s, 0, <<>>) \in DOMAIN results
        /\ Request("set", "", "", s, 0, descs[s].elems) \in called

\* C12: set_struct_elem_types on a forward named struct records the given
\* elements and completes it; on a complete one with the same elements it
\* changes nothing, with other elements the process is aborted and nothing
\* is changed. No call of any kind changes the elements of a complete named
\* struct or makes it forward again, and get_forward for an existing
\* (module, name) returns that descriptor and changes nothing.
C12_ElementsSetOnce ==
    [][\A s \in Structs(descs) :
          LET d == descs[s]
              fwd == Request("forward", d.module, d.name, NoDesc, 0, <<>>)
          IN  d.module # ""
              => /\ ~d.forward => (descs'[s].elems = d.elems /\ ~descs'[s].forward)
                 /\ \A es \in SetArgs(descs) :
                       Get(Request("set", "", "", s, 0, es))
                       => IF d.forward
                          THEN ~type_abort' /\ descs'[s].elems = es /\ ~descs'[s].forward
                          ELSE IF d.elems = es
                          THEN ~type_abort' /\ UNCHANGED <<descs, tables>>
                          ELSE type_abort' /\ UNCHANGED <<descs, tables>>
                 /\ Get(fwd)
                    => /\ ~type_abort' /\ UNCHANGED <<descs, tables>>
                       /\ s \in results'[fwd]
      ]_typVars

C12_Witness ==
    /\ type_abort /\ failed.ctor = "set"
    /\ LET d == descs[failed.elem]
       IN  /\ d.module # "" /\ ~d.forward
           /\ d.elems # failed.elems
           /\ Request("forward", d.module, d.name, NoDesc, 0, <<>>) \in DOMAIN results
           /\ Request("set", "", "", failed.elem, 0, d.elems) \in called

\* C27: get_signature returns for every descriptor the constructors and
\* set_struct_elem_types have made: no chain of element, contained, return
\* or argument descriptors leads back to its start without passing a struct
\* that gives only its 'module::name' form.
C27_SignatureTerminates ==
    \A d \in 1..Len(descs) : Returns_signature(descs, descs[d], Len(descs) + 1)

\* C30: get_anon returns a struct descriptor whose elements are the
\* requested ones, FnTypeDesc::get a function descriptor whose return and
\* argument descriptors are the requested ones, whatever descriptors the
\* arguments are (unknown descriptors of different modules included); so two
\* requests that differ in some descriptor never get the same object.
C30_KeyedDescriptorExact ==
    LET Keyed == {r \in DOMAIN results : r.ctor \in {"anon", "function"}}
    IN  /\ \A r \in Keyed : \A td \in results[r] :
              /\ descs[td].elems = r.elems
              /\ descs[td].kind = (IF r.ctor = "anon" THEN "struct" ELSE "function")
              /\ r.ctor = "function" => descs[td].elem = r.elem
        /\ \A r1, r2 \in Keyed : r1 # r2 => results[r1] \cap results[r2] = {}

====
